---- MODULE Spec2Model ----
(***************************************************************************)
(* Model of SolsticeBackend (src/src/lib.rs): the plotters DrawingBackend  *)
(* that translates drawing primitives into solstice_2d draw-list commands  *)
(* and flushes them on present().                                          *)
(*                                                                         *)
(* Numbers.  An i32 is an integer.  A u32 is a pair <<hi, lo>> of 16-bit   *)
(* halves, so that all 32 bits of a negative i32 read as unsigned fit.     *)
(* A float (f32/f64) is an exact rational <<n, d>> in lowest terms with    *)
(* d > 0.  The casts of the source (float -> i32, i32 -> u32, integer ->   *)
(* f32, byte / 255.) are computed on these representations.                *)
(***************************************************************************)
EXTENDS Integers, Sequences, FiniteSets, TLC

VARIABLES
    viewport,   \* ctx: the context's current viewport, [w, h] as i32
    gfx_size,   \* gfx: the engine's width/height, <<f32, f32>>
    draw_list,  \* draw_list: [commands, color, line_width]
    calls,      \* history: the primitive calls made since the last present
    last        \* history: the last call: its arguments, result, pre-state,
                \* and for present the command list gfx.process was handed

vars == <<viewport, gfx_size, draw_list, calls, last>>

----------------------------------------------------------------------------
(* Bounds of the model *)

MaxCalls == 2       \* primitive calls per frame
MaxCoord == 1       \* pixel coordinates range over -1..MaxCoord
MaxExtent == 3      \* measured text boxes are up to MaxExtent wide and high
MaxRadius == 12     \* circle radii range over 0..MaxRadius

----------------------------------------------------------------------------
(* Arithmetic of the machine types *)

Abs(a) == IF a < 0 THEN -a ELSE a

Pow2(k) == 2 ^ k

\* The quotient rounded toward minus infinity.
FloorDiv(a, b) == a \div b

\* Rust's integer `/`: the quotient truncated toward zero.
TruncDiv(a, b) == IF a >= 0 THEN a \div b ELSE -((-a) \div b)

RECURSIVE GCD(_, _)
GCD(a, b) == IF b = 0 THEN a ELSE GCD(b, a % b)

\* The float n/d, in lowest terms.
Frac(n, d) == LET g == GCD(Abs(n), d) IN <<n \div g, d \div g>>

FSub(a, b) == Frac(a[1] * b[2] - b[1] * a[2], a[2] * b[2])

\* `x as f32` for an integer x: exact up to 2^24, beyond that the nearest
\* float with a 24-bit significand, ties to even.
RoundTo24(m) ==
    LET e == CHOOSE k \in 24..30 : Pow2(k) <= m /\ (k = 30 \/ m < Pow2(k + 1))
        ulp == Pow2(e - 23)
        q == m \div ulp
        r == m % ulp
        up == (2 * r > ulp) \/ (2 * r = ulp /\ q % 2 = 1)
    IN  (IF up THEN q + 1 ELSE q) * ulp

int_as_f32(x) ==
    IF Abs(x) < Pow2(24) THEN <<x, 1>>
    ELSE IF x < 0 THEN <<-RoundTo24(-x), 1>> ELSE <<RoundTo24(x), 1>>

\* `f as i32` for a float f of magnitude below 2^31: truncates toward zero.
f32_as_i32_round(f) == FloorDiv(2 * f[1] + f[2], 2 * f[2])

f32_as_i32(f) == TruncDiv(f[1], f[2])

\* `i as u32` for an i32 i: the same 32 bits read as unsigned (i + 2^32 for
\* a negative i).
i32_as_u32(i) ==
    IF i >= 0 THEN <<i \div Pow2(16), i % Pow2(16)>>
    ELSE LET b == i - (-Pow2(30) - Pow2(30))
         IN  <<(b \div Pow2(16)) + Pow2(15), b % Pow2(16)>>

\* a >= b on u32
U32Ge(a, b) == a[1] > b[1] \/ (a[1] = b[1] /\ a[2] >= b[2])

----------------------------------------------------------------------------
(* solstice_2d values *)

White == [red |-> <<1, 1>>, green |-> <<1, 1>>, blue |-> <<1, 1>>, alpha |-> <<1, 1>>]

\* color_into: bytes divided by 255., alpha cast to f32 (exact for the
\* alphas of the model, which are multiples of 1/2).
color_into(color) ==
    [red |-> Frac(color.rgb[1], 255), green |-> Frac(color.rgb[2], 255),
     blue |-> Frac(color.rgb[3], 255), alpha |-> color.alpha]

\* Color -> [f32; 4], the `.into()` of the line vertices' color.
color_array(c) == <<c.red, c.green, c.blue, c.alpha>>

\* [f32; 4] -> Color, the Into<Color> of set_color's argument.
array_color(a) == [red |-> a[1], green |-> a[2], blue |-> a[3], alpha |-> a[4]]

Rectangle(x, y, width, height) ==
    [shape |-> "Rectangle", x |-> x, y |-> y, width |-> width, height |-> height]

Circle(x, y, radius, segments) ==
    [shape |-> "Circle", x |-> x, y |-> y, radius |-> radius, segments |-> segments]

LineVertex(position, width, color) ==
    [position |-> position, width |-> width, color |-> color]

\* The commands a DrawList holds.
FillCmd(geometry, color) ==
    [kind |-> "Draw", mode |-> "Fill", geometry |-> geometry, color |-> color]

StrokeCmd(geometry, color) ==
    [kind |-> "Draw", mode |-> "Stroke", geometry |-> geometry, color |-> color]

LineCmd(vertices) == [kind |-> "Line", vertices |-> vertices]

PrintCmd(text, font, scale, bounds, color) ==
    [kind |-> "Print", text |-> text, font_id |-> font, scale |-> scale,
     bounds |-> bounds, color |-> color]

\* DrawList::default()
DrawListDefault == [commands |-> <<>>, color |-> White, line_width |-> <<1, 1>>]

\* The DrawList methods the backend calls.
push(dl, cmd) == [dl EXCEPT !.commands = Append(@, cmd)]

draw_with_color(dl, geometry, color) == push(dl, FillCmd(geometry, color))

stroke_with_color(dl, geometry, color) == push(dl, StrokeCmd(geometry, color))

line_2d(dl, vertices) == push(dl, LineCmd(vertices))

set_line_width(dl, w) == [dl EXCEPT !.line_width = w]

set_color(dl, c) == [dl EXCEPT !.color = c]

print(dl, text, font, scale, bounds) ==
    push(dl, PrintCmd(text, font, scale, bounds, dl.color))

----------------------------------------------------------------------------
(* The backend *)

\* The font handle add_font returned at construction.
font_id == "font0"

NoLayout == [ok |-> FALSE, box |-> <<<<0, 0>>, <<0, 0>>>>]

NoArgs == <<>>

\* get_size: the viewport's dimensions, each cast to u32.
get_size(vp) == <<i32_as_u32(vp.w), i32_as_u32(vp.h)>>

\* draw_pixel's clipping test.
pixel_outside_inclusive(point, size) ==
    point[1] < 0 \/ point[2] < 0
        \/ (i32_as_u32(point[1]) # size[1] /\ U32Ge(i32_as_u32(point[1]), size[1]))
        \/ (i32_as_u32(point[2]) # size[2] /\ U32Ge(i32_as_u32(point[2]), size[2]))

pixel_outside(point, size) ==
    point[1] < 0 \/ point[2] < 0
        \/ U32Ge(i32_as_u32(point[1]), size[1]) \/ U32Ge(i32_as_u32(point[2]), size[2])

\* draw_circle's segment count: radius.max(10).
circle_segments_min(radius) == IF radius < 10 THEN radius ELSE 10

circle_segments(radius) == IF radius > 10 THEN radius ELSE 10

\* draw_text's zero-alpha test.
text_never_invisible(color) == FALSE

text_invisible(color) == color.alpha[1] = 0

\* draw_text's anchor offsets.
text_dx(h_pos, width) ==
    CASE h_pos = "Left" -> 0
      [] h_pos = "Right" -> -width
      [] h_pos = "Center" -> TruncDiv(-width, 2)

text_dy(v_pos, height) ==
    CASE v_pos = "Top" -> 0
      [] v_pos = "Center" -> TruncDiv(-height, 2)
      [] v_pos = "Bottom" -> -height

\* style.transform().transform(x, y)
FontTransform(t, x, y) ==
    CASE t = "None" -> <<x, y>>
      [] t = "Rotate90" -> <<-y, x>>
      [] t = "Rotate180" -> <<-x, -y>>
      [] t = "Rotate270" -> <<y, -x>>

\* The placement origin draw_text computes from the measured box.
text_origin(style, point, box) ==
    LET min_x == box[1][1]
        min_y == box[1][2]
        max_x == box[2][1]
        max_y == box[2][2]
        width == max_x - min_x
        height == max_y - min_y
        dx == text_dx(style.anchor.h_pos, width)
        dy == text_dy(style.anchor.v_pos, height)
    IN  FontTransform(style.transform, point[1] + dx - min_x, point[2] + dy - min_y)

text_bounds(vp, style, point, box) ==
    LET o == text_origin(style, point, box)
    IN  Rectangle(int_as_f32(o[1]), int_as_f32(o[2]),
                  int_as_f32(vp.w), int_as_f32(vp.h))

\* The color draw_text leaves on the draw list: set_color([1., 1., 1., 1.]).
text_keep_color(dl) == dl

text_reset_color(dl) == set_color(dl, array_color(<<<<1, 1>>, <<1, 1>>, <<1, 1>>, <<1, 1>>>>))

\* The body of draw_text: the draw list it leaves, its result, the number of
\* layout_box calls it made and the command it handed to the draw list.
draw_text_color_first(dl, vp, text, style, point, layout) ==
    LET colored == set_color(dl, color_into(style.color))
    IN  IF text_invisible(style.color)
        THEN [dl |-> dl, ret |-> "Ok", layout_calls |-> 0, emitted |-> <<>>]
        ELSE IF ~layout.ok
        THEN [dl |-> colored, ret |-> "FontError", layout_calls |-> 1, emitted |-> <<>>]
        ELSE LET bounds == text_bounds(vp, style, point, layout.box)
             IN  [dl |-> text_reset_color(print(colored, text, font_id, style.size, bounds)),
                  ret |-> "Ok", layout_calls |-> 1,
                  emitted |-> <<PrintCmd(text, font_id, style.size, bounds,
                                         color_into(style.color))>>]

draw_text_body(dl, vp, text, style, point, layout) ==
    IF text_invisible(style.color)
    THEN [dl |-> dl, ret |-> "Ok", layout_calls |-> 0, emitted |-> <<>>]
    ELSE IF ~layout.ok
    THEN [dl |-> dl, ret |-> "FontError", layout_calls |-> 1, emitted |-> <<>>]
    ELSE LET bounds == text_bounds(vp, style, point, layout.box)
             scale == style.size
             colored == set_color(dl, color_into(style.color))
             printed == print(colored, text, font_id, scale, bounds)
         IN  [dl |-> text_reset_color(printed), ret |-> "Ok", layout_calls |-> 1,
              emitted |-> <<PrintCmd(text, font_id, scale, bounds,
                                     color_into(style.color))>>]

----------------------------------------------------------------------------
(* State *)

\* with_webgl1(.., width, height, ..)
New(width, height) ==
    /\ viewport = [w |-> f32_as_i32(width), h |-> f32_as_i32(height)]
    /\ gfx_size = <<width, height>>
    /\ draw_list = DrawListDefault
    /\ calls = <<>>
    /\ last = [op |-> "new", args |-> <<width, height>>, ret |-> "Ok",
               pre |-> DrawListDefault, pre_viewport |-> [w |-> 0, h |-> 0],
               layout_calls |-> 0, layout |-> NoLayout, engine_ok |-> TRUE,
               frame |-> <<>>, submitted |-> <<>>]

\* The bookkeeping of one primitive call.
Logged(op, args, ret, emitted, layout_calls, layout) ==
    /\ calls' = Append(calls, [op |-> op, args |-> args, emitted |-> emitted])
    /\ last' = [op |-> op, args |-> args, ret |-> ret, pre |-> draw_list,
                pre_viewport |-> viewport, layout_calls |-> layout_calls,
                layout |-> layout, engine_ok |-> TRUE, frame |-> <<>>,
                submitted |-> <<>>]

resize(width, height) ==
    /\ viewport' = [w |-> f32_as_i32(width), h |-> f32_as_i32(height)]
    /\ gfx_size' = <<width, height>>
    /\ last' = [op |-> "resize", args |-> <<width, height>>, ret |-> "Ok",
                pre |-> draw_list, pre_viewport |-> viewport, layout_calls |-> 0,
                layout |-> NoLayout, engine_ok |-> TRUE, frame |-> <<>>,
                submitted |-> <<>>]
    /\ UNCHANGED <<draw_list, calls>>

\* present: engine_ok is whether the engine's submission succeeded.
present_no_reset(engine_ok) ==
    /\ calls' = <<>>
    /\ last' = [op |-> "present", args |-> NoArgs, ret |-> "Ok", pre |-> draw_list,
                pre_viewport |-> viewport, layout_calls |-> 0, layout |-> NoLayout,
                engine_ok |-> engine_ok, frame |-> calls,
                submitted |-> draw_list.commands]
    /\ UNCHANGED <<viewport, gfx_size, draw_list>>

present(engine_ok) ==
    /\ draw_list' = DrawListDefault
    /\ calls' = <<>>
    /\ last' = [op |-> "present", args |-> NoArgs, ret |-> "Ok", pre |-> draw_list,
                pre_viewport |-> viewport, layout_calls |-> 0, layout |-> NoLayout,
                engine_ok |-> engine_ok, frame |-> calls,
                submitted |-> draw_list.commands]
    /\ UNCHANGED <<viewport, gfx_size>>

draw_pixel(point, color) ==
    /\ LET size == get_size(viewport)
           cmd == FillCmd(Rectangle(int_as_f32(point[1]), int_as_f32(point[2]),
                                    <<1, 1>>, <<1, 1>>),
                          color_into(color))
       IN  IF pixel_outside(point, size)
           THEN /\ draw_list' = draw_list
                /\ Logged("draw_pixel", <<point, color>>, "Ok", <<>>, 0, NoLayout)
           ELSE /\ draw_list' = draw_with_color(draw_list, cmd.geometry, cmd.color)
                /\ Logged("draw_pixel", <<point, color>>, "Ok", <<cmd>>, 0, NoLayout)
    /\ UNCHANGED <<viewport, gfx_size>>

\* The two vertices draw_line hands to line_2d.
line_vertices_swapped(from, to, width, color) ==
    << LineVertex(<<int_as_f32(to[1]), int_as_f32(to[2]), <<0, 1>>>>, width, color),
       LineVertex(<<int_as_f32(from[1]), int_as_f32(from[2]), <<0, 1>>>>, width, color) >>

line_vertices(from, to, width, color) ==
    << LineVertex(<<int_as_f32(from[1]), int_as_f32(from[2]), <<0, 1>>>>, width, color),
       LineVertex(<<int_as_f32(to[1]), int_as_f32(to[2]), <<0, 1>>>>, width, color) >>

draw_line(from, to, style) ==
    /\ LET width == int_as_f32(style.stroke_width)
           color == color_array(color_into(style.color))
           vertices == line_vertices(from, to, width, color)
       IN  /\ draw_list' = line_2d(draw_list, vertices)
           /\ Logged("draw_line", <<from, to, style>>, "Ok", <<LineCmd(vertices)>>,
                     0, NoLayout)
    /\ UNCHANGED <<viewport, gfx_size>>

draw_rect(from, to, style, fill) ==
    /\ LET geometry == Rectangle(int_as_f32(from[1]), int_as_f32(from[2]),
                                 FSub(int_as_f32(to[1]), int_as_f32(from[1])),
                                 FSub(int_as_f32(to[2]), int_as_f32(from[2])))
           color == color_into(style.color)
           widened == set_line_width(draw_list, int_as_f32(style.stroke_width))
       IN  IF fill
           THEN /\ draw_list' = draw_with_color(widened, geometry, color)
                /\ Logged("draw_rect", <<from, to, style, fill>>, "Ok",
                          <<FillCmd(geometry, color)>>, 0, NoLayout)
           ELSE /\ draw_list' = stroke_with_color(widened, geometry, color)
                /\ Logged("draw_rect", <<from, to, style, fill>>, "Ok",
                          <<StrokeCmd(geometry, color)>>, 0, NoLayout)
    /\ UNCHANGED <<viewport, gfx_size>>

draw_path(path, style) ==
    /\ LET width == int_as_f32(style.stroke_width)
           color == color_array(color_into(style.color))
           vertices == [i \in 1..Len(path) |->
                           LineVertex(<<int_as_f32(path[i][1]), int_as_f32(path[i][2]),
                                        <<0, 1>>>>, width, color)]
       IN  /\ draw_list' = line_2d(draw_list, vertices)
           /\ Logged("draw_path", <<path, style>>, "Ok", <<LineCmd(vertices)>>,
                     0, NoLayout)
    /\ UNCHANGED <<viewport, gfx_size>>

draw_circle(center, radius, style, fill) ==
    /\ LET geometry == Circle(int_as_f32(center[1]), int_as_f32(center[2]),
                              int_as_f32(radius), circle_segments(radius))
           color == color_into(style.color)
           widened == set_line_width(draw_list, int_as_f32(style.stroke_width))
       IN  IF fill
           THEN /\ draw_list' = draw_with_color(widened, geometry, color)
                /\ Logged("draw_circle", <<center, radius, style, fill>>, "Ok",
                          <<FillCmd(geometry, color)>>, 0, NoLayout)
           ELSE /\ draw_list' = stroke_with_color(widened, geometry, color)
                /\ Logged("draw_circle", <<center, radius, style, fill>>, "Ok",
                          <<StrokeCmd(geometry, color)>>, 0, NoLayout)
    /\ UNCHANGED <<viewport, gfx_size>>

\* draw_text: layout is what layout_box answers if it is asked.
draw_text(text, style, point, layout) ==
    /\ LET r == draw_text_body(draw_list, viewport, text, style, point, layout)
       IN  /\ draw_list' = r.dl
           /\ Logged("draw_text", <<text, style, point>>, r.ret, r.emitted,
                     r.layout_calls, IF r.layout_calls = 0 THEN NoLayout ELSE layout)
    /\ UNCHANGED <<viewport, gfx_size>>

----------------------------------------------------------------------------
(* Inputs *)

Red == [rgb |-> <<255, 0, 0>>, alpha |-> <<1, 1>>]
Faint == [rgb |-> <<0, 128, 255>>, alpha |-> <<1, 2>>]
Clear == [rgb |-> <<0, 128, 255>>, alpha |-> <<0, 1>>]

Thin == [color |-> Red, stroke_width |-> 1]
Thick == [color |-> Faint, stroke_width |-> 3]

\* Surface sizes handed to the constructor and to resize: whole,
\* fractional and negative.
SurfaceSizes ==
    { <<<<3, 2>>, <<5, 2>>>>, <<<<-3, 2>>, <<2, 1>>>>, <<<<2, 1>>, <<1, 1>>>> }

\* Pixel coordinates along both axes, from one left of / above the surface
\* to MaxCoord.
PixelPoints == { <<c, 0>> : c \in -1..MaxCoord } \cup { <<0, c>> : c \in -1..MaxCoord }

LineStarts == { <<0, 0>>, <<3, 4>> }

Paths == { <<>>, << <<0, 0>>, <<2, -1>>, <<4, 4>> >> }

HPos == {"Left", "Center", "Right"}
VPos == {"Top", "Center", "Bottom"}
Transforms == {"None", "Rotate90", "Rotate180", "Rotate270"}

TextStyle(color, h, v, t) ==
    [color |-> color, size |-> <<12, 1>>, anchor |-> [h_pos |-> h, v_pos |-> v],
     transform |-> t]

FrameTextStyles == { TextStyle(Faint, "Center", "Bottom", "None"),
                     TextStyle(Clear, "Center", "Bottom", "None") }

FrameLayouts == { NoLayout, [ok |-> TRUE, box |-> <<<<0, -2>>, <<5, 1>>>>] }

\* Measured boxes: the origin or an offset corner, extents -1..MaxExtent.
Boxes ==
    { <<m, <<m[1] + w, m[2] + h>>>> :
        m \in { <<0, 0>>, <<-1, 2>> }, w \in -1..MaxExtent, h \in -1..MaxExtent }

PlacedTextStyles == { TextStyle(Faint, h, v, t) : h \in HPos, v \in VPos, t \in Transforms }

----------------------------------------------------------------------------
(* Specifications *)

Init == \E size \in SurfaceSizes : New(size[1], size[2])

\* A frame: any primitive calls, resizes and presents in any order.
Next ==
    \/ \E size \in SurfaceSizes : resize(size[1], size[2])
    \/ \E engine_ok \in BOOLEAN : present(engine_ok)
    \/ /\ Len(calls) < MaxCalls
       /\ \/ \E point \in PixelPoints : draw_pixel(point, Faint)
          \/ \E from \in LineStarts : draw_line(from, <<5, -2>>, Thin)
          \/ \E fill \in BOOLEAN : draw_rect(<<10, 10>>, <<50, 30>>, Thin, fill)
          \/ \E path \in Paths : draw_path(path, Thick)
          \/ draw_circle(<<0, 0>>, 3, Thick, FALSE)
          \/ \E style \in FrameTextStyles, layout \in FrameLayouts :
                draw_text("a", style, <<7, 9>>, layout)

Spec == Init /\ [][Next]_vars

\* One text or circle call on a new backend, over the whole range of its
\* inputs, and the present that submits it.
NextGeometry ==
    \/ \E engine_ok \in BOOLEAN : last.op # "present" /\ present(engine_ok)
    \/ /\ last.op = "new"
       /\ \/ \E style \in PlacedTextStyles, box \in Boxes :
                draw_text("a", style, <<7, 9>>, [ok |-> TRUE, box |-> box])
          \/ \E radius \in 0..MaxRadius, fill \in BOOLEAN :
                draw_circle(<<0, 0>>, radius, Thick, fill)

SpecGeometry == Init /\ [][NextGeometry]_vars

----------------------------------------------------------------------------
(* Properties *)

\* The last command of the draw list.
LastCmd == draw_list.commands[Len(draw_list.commands)]

\* The commands the calls of a frame handed to the draw list, in call order.
RECURSIVE Emitted(_)
Emitted(frame) ==
    IF frame = <<>> THEN <<>> ELSE frame[1].emitted \o Emitted(Tail(frame))

\* C1: when present() returns, the draw list is empty, whether the engine's
\* submission succeeded or failed.
C1_PresentLeavesListEmpty ==
    last.op = "present" => draw_list.commands = <<>>

C1_Witness ==
    /\ last.op = "present"
    /\ ~last.engine_ok
    /\ Len(last.pre.commands) = MaxCalls
    /\ draw_list.commands = <<>>

\* C2: when the engine's submission fails during present(), present() returns
\* an error carrying the engine's failure, and the draw list is cleared.
C2_FailedPresentReturnsError ==
    (last.op = "present" /\ ~last.engine_ok)
        => (last.ret = "EngineError" /\ draw_list.commands = <<>>)

\* C3: the list present() hands to the engine is exactly the commands of the
\* calls made since the previous present (or construction), in call order;
\* two draw_line calls and a present submit exactly two 2-vertex line
\* records, the first call's first.
C3_SubmittedIsFrameInCallOrder ==
    last.op = "present" =>
        /\ last.submitted = Emitted(last.frame)
        /\ (Len(last.frame) = 2 /\ \A i \in 1..2 : last.frame[i].op = "draw_line")
              => /\ Len(last.submitted) = 2
                 /\ \A i \in 1..2 :
                       LET rec == last.submitted[i]
                           from == last.frame[i].args[1]
                           to == last.frame[i].args[2]
                       IN  /\ rec.kind = "Line"
                           /\ Len(rec.vertices) = 2
                           /\ rec.vertices[1].position = <<<<from[1], 1>>, <<from[2], 1>>, <<0, 1>>>>
                           /\ rec.vertices[2].position = <<<<to[1], 1>>, <<to[2], 1>>, <<0, 1>>>>

C3_Witness ==
    /\ last.op = "present"
    /\ Len(last.frame) = 2
    /\ last.frame[1].op = "draw_line" /\ last.frame[1].args[1] = <<3, 4>>
    /\ last.frame[2].op = "draw_line" /\ last.frame[2].args[1] = <<0, 0>>
    /\ Len(last.submitted) = 2
    /\ last.submitted[1].vertices[1].position = <<<<3, 1>>, <<4, 1>>, <<0, 1>>>>

\* x < u for a non-negative i32 x and a u32 u
Below(x, u) ==
    (x \div Pow2(16)) < u[1] \/ ((x \div Pow2(16)) = u[1] /\ (x % Pow2(16)) < u[2])

\* The point lies in [0, width) x [0, height) of the size get_size reports.
InSurface(point, size) ==
    /\ point[1] >= 0 /\ point[2] >= 0
    /\ Below(point[1], size[1]) /\ Below(point[2], size[2])

\* C4: draw_pixel returns success; outside [0,width) x [0,height) of the size
\* get_size currently reports it leaves the draw list unchanged, inside it
\* appends exactly one filled 1x1 rectangle at the point with the converted
\* color.
C4_DrawPixelClipsToSurface ==
    last.op = "draw_pixel" =>
        LET point == last.args[1]
            color == last.args[2]
        IN  /\ last.ret = "Ok"
            /\ IF InSurface(point, get_size(viewport))
               THEN draw_list =
                        [last.pre EXCEPT !.commands =
                            Append(@, [kind |-> "Draw", mode |-> "Fill",
                                       geometry |-> [shape |-> "Rectangle",
                                                     x |-> <<point[1], 1>>,
                                                     y |-> <<point[2], 1>>,
                                                     width |-> <<1, 1>>,
                                                     height |-> <<1, 1>>],
                                       color |-> color_into(color)])]
               ELSE draw_list = last.pre

C4_Witness ==
    /\ last.op = "draw_pixel"
    /\ last.args[1] = <<1, 0>>
    /\ InSurface(last.args[1], get_size(viewport))
    /\ Len(draw_list.commands) = Len(last.pre.commands) + 1
    /\ LastCmd.geometry.x = <<1, 1>>

\* C5: draw_text with a zero-alpha color returns success without asking the
\* layout service, appends nothing and leaves the color state unchanged.
C5_InvisibleTextIsSkipped ==
    (last.op = "draw_text" /\ last.args[2].color.alpha = <<0, 1>>) =>
        /\ last.ret = "Ok"
        /\ last.layout_calls = 0
        /\ draw_list.commands = last.pre.commands
        /\ draw_list.color = last.pre.color

C5_Witness ==
    /\ last.op = "draw_text"
    /\ last.args[2].color.alpha = <<0, 1>>
    /\ last.ret = "Ok"
    /\ last.layout_calls = 0
    /\ draw_list.commands # <<>>
    /\ draw_list = last.pre

\* C6: draw_text with a non-zero alpha asks the layout service once; when the
\* layout fails it returns a font error and leaves the draw list and the color
\* state as they were, when it succeeds it appends exactly one text record.
C6_LayoutFailureSurfacesOnce ==
    (last.op = "draw_text" /\ last.args[2].color.alpha # <<0, 1>>) =>
        /\ last.layout_calls = 1
        /\ IF last.layout.ok
           THEN /\ last.ret = "Ok"
                /\ Len(draw_list.commands) = Len(last.pre.commands) + 1
                /\ SubSeq(draw_list.commands, 1, Len(last.pre.commands)) = last.pre.commands
                /\ LastCmd.kind = "Print"
                /\ LastCmd.text = last.args[1]
           ELSE /\ last.ret = "FontError"
                /\ draw_list.commands = last.pre.commands
                /\ draw_list.color = last.pre.color

C6_Witness ==
    /\ last.op = "draw_text"
    /\ last.args[2].color.alpha # <<0, 1>>
    /\ ~last.layout.ok
    /\ last.ret = "FontError"
    /\ last.layout_calls = 1
    /\ draw_list.commands # <<>>
    /\ draw_list = last.pre

\* The u32 <<hi, lo>> whose value is t, for 0 <= t < 2^31.
U32Of(t) == <<t \div Pow2(16), t % Pow2(16)>>

\* The u32 whose value is 2^32 + t, for -2^31 <= t < 0.
U32Wrapped(t) ==
    <<(Pow2(16) - 1) - ((-t - 1) \div Pow2(16)), (Pow2(16) - 1) - ((-t - 1) % Pow2(16))>>

\* The float f truncated toward zero.
Truncated(f) == IF f[1] >= 0 THEN f[1] \div f[2] ELSE -((-f[1]) \div f[2])

\* C7 as stated: after resize(w, h), get_size() is (w, h) truncated to
\* unsigned integers; the engine's width/height are (w, h) and the draw list
\* is unchanged.
C7_ResizeThenGetSizeTruncates ==
    last.op = "resize" =>
        /\ get_size(viewport) =
               <<U32Of(Truncated(last.args[1])), U32Of(Truncated(last.args[2]))>>
        /\ gfx_size = last.args
        /\ draw_list = last.pre

\* C7 as amended: get_size() is the last resize's (w, h) truncated toward zero
\* when 0 <= w, h < 2^31, whatever resizes came before and whatever was drawn
\* since; a truncated value t < 0 is reported as 2^32 + t.  resize sets the
\* engine's width/height to the same (w, h) and leaves the draw list unchanged.
C7_ResizeThenGetSizeInRange ==
    /\ \A i \in 1..2 :
          LET t == Truncated(gfx_size[i])
          IN  get_size(viewport)[i] = IF t >= 0 THEN U32Of(t) ELSE U32Wrapped(t)
    /\ last.op = "resize" =>
          /\ gfx_size = last.args
          /\ draw_list = last.pre

C7_Witness ==
    /\ last.op = "resize"
    /\ last.args = <<<<3, 2>>, <<5, 2>>>>
    /\ last.pre_viewport # viewport
    /\ calls # <<>>
    /\ get_size(viewport) = <<<<0, 1>>, <<0, 2>>>>

\* C10: the draw list's color state is opaque white after construction and
\* after every call; a text record carries the text's converted color, and no
\* other primitive touches the color state.
C10_ColorStateIsWhiteBetweenCalls ==
    /\ draw_list.color = [red |-> <<1, 1>>, green |-> <<1, 1>>, blue |-> <<1, 1>>,
                          alpha |-> <<1, 1>>]
    /\ (last.op = "draw_text" /\ Len(draw_list.commands) > Len(last.pre.commands))
          => LastCmd.color = color_into(last.args[2].color)
    /\ last.op \in {"draw_pixel", "draw_line", "draw_rect", "draw_path", "draw_circle"}
          => draw_list.color = last.pre.color

C10_Witness ==
    /\ last.op = "draw_text"
    /\ last.ret = "Ok"
    /\ last.layout_calls = 1
    /\ LastCmd.kind = "Print"
    /\ LastCmd.color.alpha = <<1, 2>>
    /\ draw_list.color = White

\* v / 2 truncated toward zero
Half(v) == IF v >= 0 THEN v \div 2 ELSE -((-v) \div 2)

\* C8: draw_text places the text at transform(x + dx - min_x, y + dy - min_y)
\* where dx is 0, -width or -width/2 for Left, Right, Center and dy is 0,
\* -height or -height/2 for Top, Bottom, Center, the halves truncated toward
\* zero; for (Center, Center) and a box at the origin the offset before the
\* transform is (-W/2, -H/2).
C8_TextPlacement ==
    (last.op = "draw_text" /\ last.layout_calls = 1 /\ last.layout.ok) =>
        LET style == last.args[2]
            point == last.args[3]
            box == last.layout.box
            W == box[2][1] - box[1][1]
            H == box[2][2] - box[1][2]
            dx == IF style.anchor.h_pos = "Left" THEN 0
                  ELSE IF style.anchor.h_pos = "Right" THEN -W ELSE -Half(W)
            dy == IF style.anchor.v_pos = "Top" THEN 0
                  ELSE IF style.anchor.v_pos = "Bottom" THEN -H ELSE -Half(H)
            px == point[1] + dx - box[1][1]
            py == point[2] + dy - box[1][2]
            at == IF style.transform = "None" THEN <<px, py>>
                  ELSE IF style.transform = "Rotate90" THEN <<-py, px>>
                  ELSE IF style.transform = "Rotate180" THEN <<-px, -py>>
                  ELSE <<py, -px>>
        IN  /\ LastCmd.kind = "Print"
            /\ LastCmd.bounds.x = <<at[1], 1>>
            /\ LastCmd.bounds.y = <<at[2], 1>>
            /\ (style.anchor = [h_pos |-> "Center", v_pos |-> "Center"]
                    /\ box[1] = <<0, 0>> /\ style.transform = "None")
                  => /\ LastCmd.bounds.x = <<point[1] - Half(W), 1>>
                     /\ LastCmd.bounds.y = <<point[2] - Half(H), 1>>

C8_Witness ==
    /\ last.op = "draw_text"
    /\ last.layout.ok
    /\ last.layout.box = <<<<0, 0>>, <<3, 1>>>>
    /\ last.args[2].anchor = [h_pos |-> "Center", v_pos |-> "Center"]
    /\ last.args[2].transform = "None"
    /\ LastCmd.bounds.x = <<6, 1>>
    /\ LastCmd.bounds.y = <<9, 1>>

\* C9: draw_circle appends exactly one circle record, filled when fill is
\* true and stroked otherwise, whose segment count is max(radius, 10).
C9_CircleSegments ==
    last.op = "draw_circle" =>
        LET radius == last.args[2]
            fill == last.args[4]
        IN  /\ Len(draw_list.commands) = Len(last.pre.commands) + 1
            /\ SubSeq(draw_list.commands, 1, Len(last.pre.commands)) = last.pre.commands
            /\ LastCmd.kind = "Draw"
            /\ LastCmd.mode = (IF fill THEN "Fill" ELSE "Stroke")
            /\ LastCmd.geometry.shape = "Circle"
            /\ LastCmd.geometry.segments >= 10
            /\ LastCmd.geometry.segments >= radius
            /\ LastCmd.geometry.segments \in {10, radius}

C9_Witness ==
    /\ last.op = "draw_circle"
    /\ last.args[1] = <<0, 0>>
    /\ last.args[2] = 3
    /\ ~last.args[4]
    /\ LastCmd.mode = "Stroke"
    /\ LastCmd.geometry.segments = 10

====
